---- MODULE Spec2Model ----
(***************************************************************************)
(* The Uptime Kuma maintenance scripts of abemon-es/observability:         *)
(*   add    scripts/add-ssl-dns-monitors.js                                *)
(*   delete delete-monitors.js          (unnamed/part_002)                 *)
(*   list   list-monitors.js            (tail of grafana/entrypoint.sh)    *)
(*   group  status-page group rebuild   (unnamed/part_000)                 *)
(*   edit   scripts/fix-api-pricing.js                                     *)
(* Each script is one Node process talking to the service over one         *)
(* socket.io session.  The model holds the process (exit code, timers,     *)
(* one handler instance per "connect" event), the socket (link state,      *)
(* requests awaiting their acknowledgement, the send buffer), and the      *)
(* service (monitors, published groups, whether the link is logged in).    *)
(* Time is counted in units of the per-request timeout (10 s).             *)
(***************************************************************************)
EXTENDS Integers, Sequences, FiniteSets, TLC

\* ------------------------------------------------------------------ bounds
\* How many entries of each catalog list the model walks through.
NumSSL == 3
NumDNS == 2
NumHTTP == 2
\* How many catalog groups, and members per group, the rebuild walks through.
NumGroups == 2
MaxMembers == 2
\* Misbehaviours of the service and the link per behaviour: an error answer,
\* an answer that takes a tick, a link drop.
MaxFaults == 2
\* Monitors already on the service when an add run starts.
MaxPreexisting == 1
\* Length of the published group list the rebuild starts from.
MaxExistingGroups == 2
\* The largest weight a published group carries.
MaxForeignWeight == 5
\* Number of argv given to the delete tool.
MaxIds == 2
\* Invocations of the add tool in a row.
MaxRuns == 2

\* ------------------------------------------------------- program constants
RequestTimeoutMs == 10000
OverallTimeoutMs == 60000
ListTimeoutMs == 30000
EditTimeoutMs == 30000
GroupTimeoutMs == 60000
EditMonitorId == 127

TickMs == RequestTimeoutMs

Min(a, b) == IF a < b THEN a ELSE b
Prefix(s, n) == SubSeq(s, 1, Min(n, Len(s)))
Range(s) == {s[i] : i \in 1..Len(s)}

\* ---------------------------------------------------------------- catalog
SSL_MONITORS ==
  << "abemon.es SSL", "bm.consulting SSL", "foodplan.pro SSL",
     "blue-mountain.es SSL", "codex.abemon.es SSL", "logisticsexpress.es SSL",
     "concursal.consulting SSL", "status.abemon.es SSL", "logs.abemon.es SSL",
     "pricing.logisticsexpress.es SSL" >>

DNS_MONITORS ==
  << "abemon.es DNS", "bm.consulting DNS", "foodplan.pro DNS",
     "codex.abemon.es DNS", "logisticsexpress.es DNS", "blue-mountain.es DNS" >>

HTTP_MONITORS ==
  << "abemon.es", "bm.consulting", "codex.abemon.es", "blue-mountain.es",
     "foodplan.pro", "api-pricing", "Grafana", "Loki" >>

STATUS_PAGE_GROUPS ==
  << [name |-> "SSL Certificates", monitors |-> SSL_MONITORS],
     [name |-> "DNS Resolution", monitors |-> DNS_MONITORS],
     [name |-> "WordPress Sites",
      monitors |-> << "abemon.es", "bm.consulting", "codex.abemon.es",
                      "blue-mountain.es" >>],
     [name |-> "Apps & APIs", monitors |-> << "foodplan.pro", "api-pricing" >>],
     [name |-> "Observability", monitors |-> << "Grafana", "Loki" >>] >>

\* The lists as the model walks them: the source's lists cut to the bounds.
SslItems == Prefix(SSL_MONITORS, NumSSL)
DnsItems == Prefix(DNS_MONITORS, NumDNS)
HttpItems == Prefix(HTTP_MONITORS, NumHTTP)

\* main runs addSSLMonitors, addDNSMonitors, addHTTPMonitors in this order.
CATALOG == SslItems \o DnsItems \o HttpItems
N == Len(CATALOG)
Cats == {"ssl", "dns", "http"}
Category(i) ==
  IF i <= Len(SslItems) THEN "ssl"
  ELSE IF i <= Len(SslItems) + Len(DnsItems) THEN "dns" ELSE "http"

GroupCatalog ==
  [k \in 1..Min(NumGroups, Len(STATUS_PAGE_GROUPS)) |->
     [name |-> STATUS_PAGE_GROUPS[k].name,
      monitors |-> Prefix(STATUS_PAGE_GROUPS[k].monitors, MaxMembers)]]

\* Service-assigned numeric argv: one per monitor name, never 0.
AllNames == SSL_MONITORS \o DNS_MONITORS \o HTTP_MONITORS \o << "external-probe" >>
IdOf(name) == CHOOSE i \in 1..Len(AllNames) : AllNames[i] = name
NameOfId(id) == AllNames[id]

\* --------------------------------------------------------------- messages
\* A message is a sequence of words, or NoMsg when the field is absent.
NoMsg == << "<undefined>" >>
UNIQUE_MARKER == << "UNIQUE", "constraint", "failed" >>

\* String.prototype.includes, on word sequences.
includes(msg, part) ==
  \E k \in 0..(Len(msg) - Len(part)) :
     \A j \in 1..Len(part) : msg[k + j] = part[j]

\* JavaScript truthiness of response.msg: undefined and "" are falsy.
TruthyMsg(msg) == msg # NoMsg /\ msg # << >>

\* What the service says when the name already exists ...
ConflictMsgs ==
  { << "SQLITE_CONSTRAINT", ":", "UNIQUE", "constraint", "failed", ":", "monitor.name" >>,
    << "UNIQUE", "constraint", "failed" >> }
\* ... and when a request fails for another reason.
ErrorMsgs ==
  { NoMsg, << >>,
    << "NOT", "NULL", "constraint", "failed", ":", "monitor.url" >>,
    << "UNIQUE", "constraint" >> }
NotLoggedInMsg == << "You", "are", "not", "logged", "in" >>

\* addMonitor without the check for the uniqueness marker.
addMonitorSettleNoSkip(response) == IF response.ok THEN "added" ELSE "rejected"

\* The promise addMonitor returns, settled by the acknowledgement `response`:
\* "added" and "skipped" resolve it, "rejected" rejects it.
addMonitorSettle(response) ==
  IF response.ok THEN "added"
  ELSE IF TruthyMsg(response.msg) /\ includes(response.msg, UNIQUE_MARKER)
       THEN "skipped"
       ELSE "rejected"

\* ------------------------------------------------------- group rebuilding
\* (the getStatusPage callback of the group rebuild script)
ourGroupNames == {GroupCatalog[k].name : k \in DOMAIN GroupCatalog}

\* keepGroups without the filter.
keepGroupsAll(existingGroups) == existingGroups

keepGroups(existingGroups) ==
  SelectSeq(existingGroups, LAMBDA g : g.name \notin ourGroupNames)

\* monitorMap[m.name] = m.id for every monitor of the pushed snapshot.
monitorMapOf(snapshot) == [n \in snapshot |-> IdOf(n)]

\* monitorListOf without the filter: an unknown name maps to no id.
monitorListUnfiltered(group, monitorMap) ==
  [i \in 1..Len(group.monitors) |->
     [id |-> IF group.monitors[i] \in DOMAIN monitorMap
             THEN monitorMap[group.monitors[i]] ELSE 0]]

\* group.monitors.filter(name => monitorMap[name]).map(name => ({id: ...}))
monitorListOf(group, monitorMap) ==
  LET found == SelectSeq(group.monitors,
                 LAMBDA n : n \in DOMAIN monitorMap /\ monitorMap[n] # 0)
  IN [i \in 1..Len(found) |-> [id |-> monitorMap[found[i]]]]

\* pushGroups with weight++ outside the if: a group left out uses up a weight.
RECURSIVE pushGroupsCountAll(_, _, _, _)
pushGroupsCountAll(k, newGroups, weight, monitorMap) ==
  IF k > Len(GroupCatalog) THEN newGroups
  ELSE LET monitorList == monitorListOf(GroupCatalog[k], monitorMap)
       IN IF Len(monitorList) > 0
          THEN pushGroupsCountAll(k + 1,
                 Append(newGroups, [name |-> GroupCatalog[k].name,
                                    weight |-> weight,
                                    monitorList |-> monitorList]),
                 weight + 1, monitorMap)
          ELSE pushGroupsCountAll(k + 1, newGroups, weight + 1, monitorMap)

\* for (const group of STATUS_PAGE_GROUPS) { ... newGroups.push(...weight++...) }
RECURSIVE pushGroups(_, _, _, _)
pushGroups(k, newGroups, weight, monitorMap) ==
  IF k > Len(GroupCatalog) THEN newGroups
  ELSE LET monitorList == monitorListOf(GroupCatalog[k], monitorMap)
       IN IF Len(monitorList) > 0
          THEN pushGroups(k + 1,
                 Append(newGroups, [name |-> GroupCatalog[k].name,
                                    weight |-> weight,
                                    monitorList |-> monitorList]),
                 weight + 1, monitorMap)
          ELSE pushGroups(k + 1, newGroups, weight, monitorMap)

\* newGroupsOf with the first weight taken from the length of the existing
\* list instead of the kept one.
newGroupsOfExistingLength(existingGroups, monitorMap) ==
  LET keep == keepGroups(existingGroups)
  IN pushGroups(1, keep, Len(existingGroups) + 1, monitorMap)

newGroupsOf(existingGroups, monitorMap) ==
  LET keep == keepGroups(existingGroups)
  IN pushGroups(1, keep, Len(keep) + 1, monitorMap)

\* ------------------------------------------------------------------ state
VARIABLES
  script,      \* which tool this process runs
  creds,       \* TRUE when UPTIME_USER and UPTIME_PASS are both set
  argv,        \* delete tool: the command-line arguments after the script name
  run,         \* number of this invocation (the add tool may be run again)
  firstRun,    \* what the previous invocation left: << >> or <<record>>
  exitCode,    \* -1 while the process runs, else the code given to process.exit
  exitPath,    \* the place that called process.exit
  sock,        \* "none", "opening", "connected", "lost" (reconnecting), "closed"
  timer,       \* TRUE while the overall timer is armed
  now,         \* time since main started, in ticks
  passes,      \* one record per "connect" event: that handler's position and locals
  inflight,    \* requests that reached the service and are not yet acknowledged
  sendBuffer,  \* requests emitted while the link was down
  pushes,      \* monitorList pushes on their way to the client
  monitors,    \* service: names of the monitors that exist
  groups,      \* service: the published group list of the status page
  authed,      \* service: TRUE once login succeeded on the current link
  budget,      \* misbehaviours the service and the link may still show
  unauth,      \* operations that reached the service on a link not logged in
  summary      \* the summary the add / delete tool printed: << >> or <<record>>

vars == << script, creds, argv, run, firstRun, exitCode, exitPath, sock, timer, now,
           passes, inflight, sendBuffer, pushes, monitors, groups, authed,
           budget, unauth, summary >>

Scripts == {"add", "delete", "list", "group", "edit"}

Running == exitCode = -1 /\ sock # "none"

\* The overall timer of each tool, in ticks.
Deadline ==
  CASE script = "add" -> OverallTimeoutMs \div TickMs
    [] script = "delete" -> OverallTimeoutMs \div TickMs
    [] script = "group" -> GroupTimeoutMs \div TickMs
    [] script = "list" -> ListTimeoutMs \div TickMs
    [] script = "edit" -> EditTimeoutMs \div TickMs

RequestTimeout == RequestTimeoutMs \div TickMs

\* withTimeout wraps login and every add / delete request of these tools only.
UsesWithTimeout == script \in {"add", "delete"}

\* How an awaited request ended: not yet, by withTimeout's timer, or by the
\* acknowledgement `response` (kept: its ok, and whether its msg carries the
\* uniqueness marker).
Unanswered == [kind |-> "none", ok |-> FALSE, marked |-> FALSE]
TimedOut == [kind |-> "timeout", ok |-> FALSE, marked |-> FALSE]
Acked(response) ==
  [kind |-> "ack", ok |-> response.ok,
   marked |-> TruthyMsg(response.msg) /\ includes(response.msg, UNIQUE_MARKER)]

\* What Promise.race hands to the loop: the acknowledgement, or the timer's
\* rejection.
Settled(response) == [kind |-> "ack", response |-> response, seen |-> Acked(response)]
Expired ==
  [kind |-> "timeout", response |-> [ok |-> FALSE, msg |-> NoMsg], seen |-> TimedOut]

ZeroCounts == [c \in Cats |-> 0]

\* The locals of one invocation of the "connect" handler, just after it
\* emitted login.
NewPass ==
  [pc |-> "login", idx |-> 0, added |-> ZeroCounts, skipped |-> ZeroCounts,
   deleted |-> 0, failed |-> 0, sentAt |-> now,
   status |-> [i \in 1..(IF script = "delete" THEN Len(argv) ELSE N) |-> "Pending"],
   answer |-> [i \in 1..(IF script = "delete" THEN Len(argv) ELSE N) |-> Unanswered],
   monitorMap |-> << >>, existingGroups |-> << >>, newGroups |-> << >>]

Request(p, op, arg) == [pass |-> p, op |-> op, arg |-> arg]

\* socket.emit: the packet goes out when the link is up, else it is buffered.
EmitInflight(base, req) == IF sock = "connected" THEN base \cup {req} ELSE base
EmitBuffer(req) == IF sock = "connected" THEN sendBuffer ELSE Append(sendBuffer, req)
EmitUnauth(req, auth) ==
  IF sock = "connected" /\ ~auth /\ req.op # "login"
  THEN unauth \cup {req.op} ELSE unauth

\* ---------------------------------------------------------------- service
\* The answers the service may give to login.
serviceLoginAnswers ==
  {[ok |-> FALSE, msg |-> << "Incorrect", "username", "or", "password" >>]}
    \cup (IF creds THEN {[ok |-> TRUE, msg |-> NoMsg]} ELSE {})

\* The answers the service may give to add(name), each with the monitor set
\* it leaves and whether it is a misbehaviour.
serviceAddAnswers(name) ==
  IF ~authed
  THEN {[response |-> [ok |-> FALSE, msg |-> NotLoggedInMsg],
         after |-> monitors, fault |-> 0]}
  ELSE IF name \in monitors
  THEN {[response |-> [ok |-> FALSE, msg |-> m], after |-> monitors, fault |-> 0]
          : m \in ConflictMsgs}
  ELSE {[response |-> [ok |-> TRUE, msg |-> NoMsg],
         after |-> monitors \cup {name}, fault |-> 0]}
       \cup {[response |-> [ok |-> FALSE, msg |-> m], after |-> monitors, fault |-> 1]
               : m \in ErrorMsgs}

\* ------------------------------------------------------------ the add tool
\* Module top level and main(): the credential check, createSocket, the
\* overall timer, the handlers.
AddStart ==
  /\ script = "add" /\ exitCode = -1 /\ sock = "none"
  /\ IF ~creds
     THEN /\ exitCode' = 1 /\ exitPath' = "credentials"
          /\ UNCHANGED << sock, timer >>
     ELSE /\ sock' = "opening" /\ timer' = TRUE
          /\ UNCHANGED << exitCode, exitPath >>
  /\ UNCHANGED << script, creds, argv, run, firstRun, now, passes, inflight,
                  sendBuffer, pushes, monitors, groups, authed, budget, unauth,
                  summary >>

\* The link comes up (first connection or reconnection): the socket sends
\* what it buffered, then fires "connect", whose handler emits login.
ConnectAndLogin ==
  /\ Running /\ sock \in {"opening", "lost"}
  /\ Len(passes) <= MaxFaults
  /\ sock' = "connected"
  /\ authed' = FALSE
  /\ passes' = Append(passes, NewPass)
  /\ inflight' = Range(sendBuffer) \cup {Request(Len(passes) + 1, "login", 0)}
  /\ sendBuffer' = << >>
  /\ unauth' = unauth \cup {r.op : r \in Range(sendBuffer)}
  /\ UNCHANGED << script, creds, argv, run, firstRun, exitCode, exitPath, timer, now,
                  pushes, monitors, groups, budget, summary >>

AddOnConnect == script = "add" /\ ConnectAndLogin

\* The rest of the loops after item rec.idx was counted: the next addMonitor,
\* or the summary, clearTimeout, socket.disconnect and process.exit(0).
AddContinue(p, rec, base, auth) ==
  IF rec.idx < N
  THEN LET i == rec.idx + 1
           req == Request(p, "add", i)
       IN /\ passes' = [passes EXCEPT ![p] =
                          [rec EXCEPT !.pc = "add", !.idx = i, !.sentAt = now,
                                      !.status[i] = "Creating"]]
          /\ inflight' = EmitInflight(base, req)
          /\ sendBuffer' = EmitBuffer(req)
          /\ unauth' = EmitUnauth(req, auth)
          /\ UNCHANGED << exitCode, exitPath, sock, timer, summary >>
  ELSE /\ passes' = [passes EXCEPT ![p] = [rec EXCEPT !.pc = "done"]]
       /\ inflight' = base
       /\ summary' = << [added |-> rec.added, skipped |-> rec.skipped] >>
       /\ exitCode' = 0 /\ exitPath' = "done" /\ sock' = "closed" /\ timer' = FALSE
       /\ UNCHANGED << sendBuffer, unauth >>

\* The acknowledgement of login arrives.
AddLoginAck(r, response) ==
  /\ script = "add" /\ Running /\ sock = "connected"
  /\ r \in inflight /\ r.op = "login"
  /\ response \in serviceLoginAnswers
  /\ passes[r.pass].pc = "login"
  /\ authed' = (authed \/ response.ok)
  /\ IF response.ok
     THEN AddContinue(r.pass, passes[r.pass], inflight \ {r}, TRUE)
     ELSE /\ exitCode' = 1 /\ exitPath' = "login" /\ sock' = "closed"
          /\ timer' = FALSE
          /\ inflight' = inflight \ {r}
          /\ UNCHANGED << passes, sendBuffer, unauth, summary >>
  /\ UNCHANGED << script, creds, argv, run, firstRun, now, pushes, monitors, groups,
                  budget >>

\* The loop body after the await of item rec.idx: the race of addMonitor's
\* promise with the timer ended as `answer`; count it, or catch and log it.
AddCounted(rec, answer) ==
  LET i == rec.idx
      c == Category(i)
      how == IF answer.kind = "timeout" THEN "rejected"
             ELSE addMonitorSettle(answer.response)
      seen == [rec EXCEPT !.answer[i] = answer.seen]
  IN CASE how = "added" ->
            [seen EXCEPT !.added[c] = @ + 1, !.status[i] = "Succeeded"]
       [] how = "skipped" ->
            [seen EXCEPT !.skipped[c] = @ + 1, !.status[i] = "Skipped"]
       [] OTHER -> [seen EXCEPT !.status[i] = "Failed"]

\* AddAck with the counting done in addMonitor's callback instead of after
\* the await: an acknowledgement that arrives after the timeout is counted.
AddAckCountsLate(r, a) ==
  /\ script = "add" /\ Running /\ sock = "connected"
  /\ r \in inflight /\ r.op = "add"
  /\ a \in serviceAddAnswers(CATALOG[r.arg])
  /\ a.fault <= budget
  /\ budget' = budget - a.fault
  /\ monitors' = a.after
  /\ LET rec == passes[r.pass]
     IN IF rec.pc = "add" /\ rec.idx = r.arg
        THEN AddContinue(r.pass, AddCounted(rec, Settled(a.response)),
                         inflight \ {r}, authed)
        ELSE /\ inflight' = inflight \ {r}
             /\ passes' = [passes EXCEPT ![r.pass] =
                             [AddCounted([rec EXCEPT !.idx = r.arg], Settled(a.response))
                                EXCEPT !.idx = rec.idx]]
             /\ UNCHANGED << sendBuffer, unauth, exitCode, exitPath, sock,
                             timer, summary >>
  /\ UNCHANGED << script, creds, argv, run, firstRun, now, pushes, groups, authed >>

\* The acknowledgement of an add request arrives: addMonitor's callback, and,
\* when the loop still awaits this request, the loop body after the await.
AddAck(r, a) ==
  /\ script = "add" /\ Running /\ sock = "connected"
  /\ r \in inflight /\ r.op = "add"
  /\ a \in serviceAddAnswers(CATALOG[r.arg])
  /\ a.fault <= budget
  /\ budget' = budget - a.fault
  /\ monitors' = a.after
  /\ LET rec == passes[r.pass]
     IN IF rec.pc = "add" /\ rec.idx = r.arg
        THEN AddContinue(r.pass, AddCounted(rec, Settled(a.response)),
                         inflight \ {r}, authed)
        ELSE /\ inflight' = inflight \ {r}
             /\ UNCHANGED << passes, sendBuffer, unauth, exitCode, exitPath, sock,
                             timer, summary >>
  /\ UNCHANGED << script, creds, argv, run, firstRun, now, pushes, groups, authed >>

\* AddTimeout with the loop's try/catch left out: an item's timeout reaches
\* the handler's catch.
AddTimeoutFatal(p) ==
  /\ script = "add" /\ Running
  /\ p \in 1..Len(passes)
  /\ passes[p].pc \in {"login", "add"}
  /\ now - passes[p].sentAt >= RequestTimeout
  /\ exitCode' = 1 /\ exitPath' = "login-timeout" /\ sock' = "closed"
  /\ timer' = FALSE
  /\ passes' = IF passes[p].pc = "add"
               THEN [passes EXCEPT ![p] = AddCounted(@, Expired)] ELSE passes
  /\ UNCHANGED << inflight, sendBuffer, unauth, summary >>
  /\ UNCHANGED << script, creds, argv, run, firstRun, now, pushes, monitors, groups,
                  authed, budget >>

\* withTimeout's timer fires before the acknowledgement: login's rejection is
\* caught by the handler's catch, an item's by the loop's catch.
AddTimeout(p) ==
  /\ script = "add" /\ Running
  /\ p \in 1..Len(passes)
  /\ passes[p].pc \in {"login", "add"}
  /\ now - passes[p].sentAt >= RequestTimeout
  /\ IF passes[p].pc = "login"
     THEN /\ exitCode' = 1 /\ exitPath' = "login-timeout" /\ sock' = "closed"
          /\ timer' = FALSE
          /\ UNCHANGED << passes, inflight, sendBuffer, unauth, summary >>
     ELSE AddContinue(p, AddCounted(passes[p], Expired), inflight, authed)
  /\ UNCHANGED << script, creds, argv, run, firstRun, now, pushes, monitors, groups,
                  authed, budget >>

\* ------------------------------------------------- timers and the transport
\* What a tick costs: the link taking long to come up is free, an answer
\* taking a tick is a misbehaviour.
TickCost == IF sock = "opening" THEN 0 ELSE 1

\* A tick passes.  No armed timer is overdue.
Tick ==
  /\ Running
  /\ timer /\ now < Deadline
  /\ TickCost <= budget
  /\ budget' = budget - TickCost
  /\ UsesWithTimeout =>
       \A p \in 1..Len(passes) :
          passes[p].pc \in {"login", "add", "delete"}
            => now - passes[p].sentAt < RequestTimeout
  /\ now' = now + 1
  /\ UNCHANGED << script, creds, argv, run, firstRun, exitCode, exitPath, sock, timer,
                  passes, inflight, sendBuffer, pushes, monitors, groups, authed,
                  unauth, summary >>

\* The overall timer fires.
OverallTimeout(disconnect) ==
  /\ Running /\ timer /\ now >= Deadline
  /\ exitCode' = 1 /\ exitPath' = "deadline"
  /\ sock' = IF disconnect THEN "closed" ELSE sock
  /\ timer' = FALSE
  /\ UNCHANGED << script, creds, argv, run, firstRun, now, passes, inflight,
                  sendBuffer, pushes, monitors, groups, authed, budget, unauth,
                  summary >>

AddOverallTimeout == script = "add" /\ OverallTimeout(TRUE)

\* A connection attempt fails: the socket fires "connect_error".
ConnectError(clear) ==
  /\ Running /\ sock \in {"opening", "lost"}
  /\ exitCode' = 1 /\ exitPath' = "connect_error"
  /\ timer' = IF clear THEN FALSE ELSE timer
  /\ UNCHANGED << script, creds, argv, run, firstRun, now, sock, passes, inflight,
                  sendBuffer, pushes, monitors, groups, authed, budget, unauth,
                  summary >>

AddConnectError == script = "add" /\ ConnectError(TRUE)

\* The link drops while the session is open: the acknowledgements and pushes
\* under way are lost, the socket starts reconnecting (reconnection: true).
LinkDrop ==
  /\ Running /\ sock = "connected"
  /\ budget > 0
  /\ budget' = budget - 1
  /\ sock' = "lost"
  /\ authed' = FALSE
  /\ inflight' = {}
  /\ pushes' = 0
  /\ UNCHANGED << script, creds, argv, run, firstRun, exitCode, exitPath, timer, now,
                  passes, sendBuffer, monitors, groups, unauth, summary >>

\* --------------------------------------------------------- the delete tool
\* parseInt(arg, 10) on a string of characters: the value of the leading
\* digits, NaN when there is none.
NaN == -1
Digits == << "0", "1", "2", "3", "4", "5", "6", "7", "8", "9" >>
IsDigit(ch) == \E d \in 1..10 : Digits[d] = ch
DigitValue(ch) == (CHOOSE d \in 1..10 : Digits[d] = ch) - 1
RECURSIVE parseDigits(_, _, _)
parseDigits(str, k, acc) ==
  IF k > Len(str) \/ ~IsDigit(str[k]) THEN acc
  ELSE parseDigits(str, k + 1, acc * 10 + DigitValue(str[k]))
parseInt(str) ==
  IF Len(str) = 0 \/ ~IsDigit(str[1]) THEN NaN ELSE parseDigits(str, 1, 0)

monitorIdsToDelete == [i \in 1..Len(argv) |-> parseInt(argv[i])]

\* The answers the service may give to deleteMonitor(id).
serviceDeleteAnswers(id) ==
  IF ~authed
  THEN {[response |-> [ok |-> FALSE, msg |-> NotLoggedInMsg],
         after |-> monitors, fault |-> 0]}
  ELSE IF id \in 1..Len(AllNames) /\ NameOfId(id) \in monitors
  THEN {[response |-> [ok |-> TRUE, msg |-> NoMsg],
         after |-> monitors \ {NameOfId(id)}, fault |-> 0],
        [response |-> [ok |-> FALSE, msg |-> << "database", "is", "locked" >>],
         after |-> monitors, fault |-> 1]}
  ELSE {[response |-> [ok |-> FALSE, msg |-> << "Monitor", "not", "found" >>],
         after |-> monitors, fault |-> 0]}

DeleteStart ==
  /\ script = "delete" /\ exitCode = -1 /\ sock = "none"
  /\ IF ~creds
     THEN /\ exitCode' = 1 /\ exitPath' = "credentials"
          /\ UNCHANGED << sock, timer >>
     ELSE IF Len(monitorIdsToDelete) = 0
     THEN /\ exitCode' = 1 /\ exitPath' = "usage"
          /\ UNCHANGED << sock, timer >>
     ELSE /\ sock' = "opening" /\ timer' = TRUE
          /\ UNCHANGED << exitCode, exitPath >>
  /\ UNCHANGED << script, creds, argv, run, firstRun, now, passes, inflight,
                  sendBuffer, pushes, monitors, groups, authed, budget, unauth,
                  summary >>

DeleteOnConnect == script = "delete" /\ ConnectAndLogin

\* The rest of the loop after id number rec.idx was counted.
DeleteContinue(p, rec, base, auth) ==
  IF rec.idx < Len(monitorIdsToDelete)
  THEN LET i == rec.idx + 1
           req == Request(p, "deleteMonitor", i)
       IN /\ passes' = [passes EXCEPT ![p] =
                          [rec EXCEPT !.pc = "delete", !.idx = i, !.sentAt = now,
                                      !.status[i] = "Deleting"]]
          /\ inflight' = EmitInflight(base, req)
          /\ sendBuffer' = EmitBuffer(req)
          /\ unauth' = EmitUnauth(req, auth)
          /\ UNCHANGED << exitCode, exitPath, sock, timer, summary >>
  ELSE /\ passes' = [passes EXCEPT ![p] = [rec EXCEPT !.pc = "done"]]
       /\ inflight' = base
       /\ summary' = << [deleted |-> rec.deleted, failed |-> rec.failed] >>
       /\ exitCode' = 0 /\ exitPath' = "done" /\ sock' = "closed" /\ timer' = FALSE
       /\ UNCHANGED << sendBuffer, unauth >>

DeleteLoginAck(r, response) ==
  /\ script = "delete" /\ Running /\ sock = "connected"
  /\ r \in inflight /\ r.op = "login"
  /\ response \in serviceLoginAnswers
  /\ passes[r.pass].pc = "login"
  /\ authed' = (authed \/ response.ok)
  /\ IF response.ok
     THEN DeleteContinue(r.pass, passes[r.pass], inflight \ {r}, TRUE)
     ELSE /\ exitCode' = 1 /\ exitPath' = "login" /\ sock' = "closed"
          /\ timer' = FALSE
          /\ inflight' = inflight \ {r}
          /\ UNCHANGED << passes, sendBuffer, unauth, summary >>
  /\ UNCHANGED << script, creds, argv, run, firstRun, now, pushes, monitors, groups,
                  budget >>

\* DeleteCounted with failed++ left out of the catch.
DeleteCountedNoFail(rec, answer) ==
  LET seen == [rec EXCEPT !.answer[rec.idx] = answer.seen]
  IN IF answer.kind = "ack" /\ answer.response.ok
     THEN [seen EXCEPT !.deleted = @ + 1, !.status[rec.idx] = "Succeeded"]
     ELSE [seen EXCEPT !.status[rec.idx] = "Failed"]

\* The loop body after the await of id number rec.idx: deleted++, or the
\* catch with failed++.
DeleteCounted(rec, answer) ==
  LET seen == [rec EXCEPT !.answer[rec.idx] = answer.seen]
  IN IF answer.kind = "ack" /\ answer.response.ok
     THEN [seen EXCEPT !.deleted = @ + 1, !.status[rec.idx] = "Succeeded"]
     ELSE [seen EXCEPT !.failed = @ + 1, !.status[rec.idx] = "Failed"]

\* The acknowledgement of a deleteMonitor request arrives.
DeleteAck(r, a) ==
  /\ script = "delete" /\ Running /\ sock = "connected"
  /\ r \in inflight /\ r.op = "deleteMonitor"
  /\ a \in serviceDeleteAnswers(monitorIdsToDelete[r.arg])
  /\ a.fault <= budget
  /\ budget' = budget - a.fault
  /\ monitors' = a.after
  /\ LET rec == passes[r.pass]
     IN IF rec.pc = "delete" /\ rec.idx = r.arg
        THEN DeleteContinue(r.pass, DeleteCounted(rec, Settled(a.response)),
                            inflight \ {r}, authed)
        ELSE /\ inflight' = inflight \ {r}
             /\ UNCHANGED << passes, sendBuffer, unauth, exitCode, exitPath, sock,
                             timer, summary >>
  /\ UNCHANGED << script, creds, argv, run, firstRun, now, pushes, groups, authed >>

DeleteTimeout(p) ==
  /\ script = "delete" /\ Running
  /\ p \in 1..Len(passes)
  /\ passes[p].pc \in {"login", "delete"}
  /\ now - passes[p].sentAt >= RequestTimeout
  /\ IF passes[p].pc = "login"
     THEN /\ exitCode' = 1 /\ exitPath' = "login-timeout" /\ sock' = "closed"
          /\ timer' = FALSE
          /\ UNCHANGED << passes, inflight, sendBuffer, unauth, summary >>
     ELSE DeleteContinue(p, DeleteCounted(passes[p], Expired), inflight, authed)
  /\ UNCHANGED << script, creds, argv, run, firstRun, now, pushes, monitors, groups,
                  authed, budget >>

DeleteOverallTimeout == script = "delete" /\ OverallTimeout(TRUE)
DeleteConnectError == script = "delete" /\ ConnectError(TRUE)

\* ----------------------------------------------------------- the list tool
ListStart ==
  /\ script = "list" /\ exitCode = -1 /\ sock = "none"
  /\ IF ~creds
     THEN /\ exitCode' = 1 /\ exitPath' = "credentials"
          /\ UNCHANGED << sock, timer >>
     ELSE /\ sock' = "opening" /\ timer' = TRUE
          /\ UNCHANGED << exitCode, exitPath >>
  /\ UNCHANGED << script, creds, argv, run, firstRun, now, passes, inflight,
                  sendBuffer, pushes, monitors, groups, authed, budget, unauth,
                  summary >>

ListOnConnect == script = "list" /\ ConnectAndLogin

\* login's callback.  After a successful login the service pushes the
\* monitor list on its own.
ListLoginAck(r, response) ==
  /\ script = "list" /\ Running /\ sock = "connected"
  /\ r \in inflight /\ r.op = "login"
  /\ response \in serviceLoginAnswers
  /\ inflight' = inflight \ {r}
  /\ authed' = (authed \/ response.ok)
  /\ IF response.ok
     THEN /\ passes' = [passes EXCEPT ![r.pass].pc = "idle"]
          /\ pushes' = pushes + 1
          /\ UNCHANGED << exitCode, exitPath, sock, timer >>
     ELSE /\ exitCode' = 1 /\ exitPath' = "login" /\ sock' = "closed"
          /\ timer' = FALSE
          /\ UNCHANGED << passes, pushes >>
  /\ UNCHANGED << script, creds, argv, run, firstRun, now, sendBuffer, monitors,
                  groups, budget, unauth, summary >>

\* The "monitorList" handler: print, clearTimeout, disconnect, exit(0).
ListOnMonitorList ==
  /\ script = "list" /\ Running /\ sock = "connected"
  /\ pushes > 0
  /\ pushes' = pushes - 1
  /\ summary' = << [total |-> Cardinality(monitors)] >>
  /\ exitCode' = 0 /\ exitPath' = "done" /\ sock' = "closed" /\ timer' = FALSE
  /\ UNCHANGED << script, creds, argv, run, firstRun, now, passes, inflight,
                  sendBuffer, monitors, groups, authed, budget, unauth >>

ListOverallTimeout == script = "list" /\ OverallTimeout(TRUE)
ListConnectError == script = "list" /\ ConnectError(TRUE)

\* ---------------------------------------------------- the group rebuild tool
\* Module top level: io(), the handlers, the 60 s timer.  No credential check.
GroupStart ==
  /\ script = "group" /\ exitCode = -1 /\ sock = "none"
  /\ sock' = "opening" /\ timer' = TRUE
  /\ UNCHANGED << script, creds, argv, run, firstRun, exitCode, exitPath, now,
                  passes, inflight, sendBuffer, pushes, monitors, groups, authed,
                  budget, unauth, summary >>

GroupOnConnect == script = "group" /\ ConnectAndLogin

\* login's callback up to the 1 s wait.
GroupLoginAck(r, response) ==
  /\ script = "group" /\ Running /\ sock = "connected"
  /\ r \in inflight /\ r.op = "login"
  /\ response \in serviceLoginAnswers
  /\ inflight' = inflight \ {r}
  /\ authed' = (authed \/ response.ok)
  /\ IF response.ok
     THEN /\ passes' = [passes EXCEPT ![r.pass].pc = "settle"]
          /\ pushes' = pushes + 1
          /\ UNCHANGED << exitCode, exitPath >>
     ELSE /\ exitCode' = 1 /\ exitPath' = "login"
          /\ UNCHANGED << passes, pushes >>
  /\ UNCHANGED << script, creds, argv, run, firstRun, now, sock, timer, sendBuffer,
                  monitors, groups, budget, unauth, summary >>

\* After the wait: socket.once("monitorList", ...) and emit("getMonitorList").
GroupSettled(p) ==
  /\ script = "group" /\ Running
  /\ p \in 1..Len(passes) /\ passes[p].pc = "settle"
  /\ passes' = [passes EXCEPT ![p].pc = "monitorList"]
  /\ LET req == Request(p, "getMonitorList", 0)
     IN /\ inflight' = EmitInflight(inflight, req)
        /\ sendBuffer' = EmitBuffer(req)
        /\ unauth' = EmitUnauth(req, authed)
  /\ UNCHANGED << script, creds, argv, run, firstRun, exitCode, exitPath, sock, timer,
                  now, pushes, monitors, groups, authed, budget, summary >>

\* The service takes getMonitorList (it has no acknowledgement) and pushes
\* the monitor list.
GroupListRequested(r) ==
  /\ script = "group" /\ Running /\ sock = "connected"
  /\ r \in inflight /\ r.op = "getMonitorList"
  /\ inflight' = inflight \ {r}
  /\ pushes' = IF authed THEN pushes + 1 ELSE pushes
  /\ UNCHANGED << script, creds, argv, run, firstRun, exitCode, exitPath, sock, timer,
                  now, passes, sendBuffer, monitors, groups, authed, budget, unauth,
                  summary >>

\* GroupOnMonitorList with the handler registered by on() instead of once():
\* it stays registered and fires for every later push.
GroupOnMonitorListOn ==
  /\ script = "group" /\ Running /\ sock = "connected"
  /\ pushes > 0
  /\ pushes' = pushes - 1
  /\ LET waiting == {p \in 1..Len(passes) :
                       passes[p].pc \in {"monitorList", "getStatusPage", "saveStatusPage"}}
     IN /\ passes' = [p \in 1..Len(passes) |->
                        IF p \in waiting
                        THEN [passes[p] EXCEPT !.pc = "getStatusPage",
                                               !.monitorMap = monitorMapOf(monitors)]
                        ELSE passes[p]]
        /\ inflight' = inflight \cup {Request(p, "getStatusPage", 0) : p \in waiting}
        /\ unauth' = IF waiting # {} /\ ~authed
                     THEN unauth \cup {"getStatusPage"} ELSE unauth
  /\ UNCHANGED << script, creds, argv, run, firstRun, exitCode, exitPath, sock, timer,
                  now, sendBuffer, monitors, groups, authed, budget, summary >>

\* A monitorList push arrives: every handler registered with once() fires
\* and is removed; each builds monitorMap and emits getStatusPage.
GroupOnMonitorList ==
  /\ script = "group" /\ Running /\ sock = "connected"
  /\ pushes > 0
  /\ pushes' = pushes - 1
  /\ LET waiting == {p \in 1..Len(passes) : passes[p].pc = "monitorList"}
     IN /\ passes' = [p \in 1..Len(passes) |->
                        IF p \in waiting
                        THEN [passes[p] EXCEPT !.pc = "getStatusPage",
                                               !.monitorMap = monitorMapOf(monitors)]
                        ELSE passes[p]]
        /\ inflight' = inflight \cup {Request(p, "getStatusPage", 0) : p \in waiting}
        /\ unauth' = IF waiting # {} /\ ~authed
                     THEN unauth \cup {"getStatusPage"} ELSE unauth
  /\ UNCHANGED << script, creds, argv, run, firstRun, exitCode, exitPath, sock, timer,
                  now, sendBuffer, monitors, groups, authed, budget, summary >>

\* The answers the service may give to getStatusPage("main").
serviceStatusPageAnswers ==
  {[ok |-> FALSE, publicGroupList |-> << >>]}
    \cup (IF authed THEN {[ok |-> TRUE, publicGroupList |-> groups]} ELSE {})

\* GroupStatusPageAck without the check of res.ok: a refused getStatusPage is
\* taken as an empty group list.
GroupStatusPageAckLenient(r, res) ==
  /\ script = "group" /\ Running /\ sock = "connected"
  /\ r \in inflight /\ r.op = "getStatusPage"
  /\ res \in serviceStatusPageAnswers
  /\ LET existingGroups == res.publicGroupList
         newGroups == newGroupsOf(existingGroups, passes[r.pass].monitorMap)
     IN /\ passes' = [passes EXCEPT ![r.pass] =
                        [@ EXCEPT !.pc = "saveStatusPage",
                                  !.existingGroups = existingGroups,
                                  !.newGroups = newGroups]]
        /\ inflight' = (inflight \ {r}) \cup {Request(r.pass, "saveStatusPage", 0)}
        /\ unauth' = IF ~authed THEN unauth \cup {"saveStatusPage"} ELSE unauth
  /\ UNCHANGED << script, creds, argv, run, firstRun, now, sock, timer, sendBuffer,
                  pushes, monitors, groups, authed, budget, summary, exitCode,
                  exitPath >>

\* getStatusPage's callback: the new group list, then emit saveStatusPage.
GroupStatusPageAck(r, res) ==
  /\ script = "group" /\ Running /\ sock = "connected"
  /\ r \in inflight /\ r.op = "getStatusPage"
  /\ res \in serviceStatusPageAnswers
  /\ IF res.ok
     THEN LET existingGroups == res.publicGroupList
              newGroups == newGroupsOf(existingGroups, passes[r.pass].monitorMap)
          IN /\ passes' = [passes EXCEPT ![r.pass] =
                             [@ EXCEPT !.pc = "saveStatusPage",
                                       !.existingGroups = existingGroups,
                                       !.newGroups = newGroups]]
             /\ inflight' = (inflight \ {r})
                               \cup {Request(r.pass, "saveStatusPage", 0)}
             /\ unauth' = IF ~authed THEN unauth \cup {"saveStatusPage"} ELSE unauth
             /\ UNCHANGED << exitCode, exitPath >>
     ELSE /\ exitCode' = 1 /\ exitPath' = "get-failed"
          /\ inflight' = inflight \ {r}
          /\ UNCHANGED << passes, unauth >>
  /\ UNCHANGED << script, creds, argv, run, firstRun, now, sock, timer, sendBuffer,
                  pushes, monitors, groups, authed, budget, summary >>

\* The answers the service may give to saveStatusPage: it replaces the whole
\* group list, or refuses.
serviceSaveAnswers(newGroups) ==
  {[ok |-> FALSE, after |-> groups]}
    \cup (IF authed THEN {[ok |-> TRUE, after |-> newGroups]} ELSE {})

\* saveStatusPage's callback: disconnect, exit(res.ok ? 0 : 1).
GroupSaveAck(r, res) ==
  /\ script = "group" /\ Running /\ sock = "connected"
  /\ r \in inflight /\ r.op = "saveStatusPage"
  /\ res \in serviceSaveAnswers(passes[r.pass].newGroups)
  /\ groups' = res.after
  /\ inflight' = inflight \ {r}
  /\ passes' = [passes EXCEPT ![r.pass].pc = "done"]
  /\ sock' = "closed"
  /\ exitCode' = IF res.ok THEN 0 ELSE 1
  /\ exitPath' = IF res.ok THEN "done" ELSE "save-failed"
  /\ UNCHANGED << script, creds, argv, run, firstRun, now, timer, sendBuffer, pushes,
                  monitors, authed, budget, unauth, summary >>

GroupOverallTimeout == script = "group" /\ OverallTimeout(FALSE)
GroupConnectError == script = "group" /\ ConnectError(FALSE)

\* ------------------------------------------------------------ the edit tool
\* Module top level: io(), the "connect" handler, the 30 s timer.
EditStart ==
  /\ script = "edit" /\ exitCode = -1 /\ sock = "none"
  /\ sock' = "opening" /\ timer' = TRUE
  /\ UNCHANGED << script, creds, argv, run, firstRun, exitCode, exitPath, now,
                  passes, inflight, sendBuffer, pushes, monitors, groups, authed,
                  budget, unauth, summary >>

EditOnConnect == script = "edit" /\ ConnectAndLogin

\* login's callback: exit(1), or emit editMonitor.
EditLoginAck(r, response) ==
  /\ script = "edit" /\ Running /\ sock = "connected"
  /\ r \in inflight /\ r.op = "login"
  /\ response \in serviceLoginAnswers
  /\ authed' = (authed \/ response.ok)
  /\ IF response.ok
     THEN /\ passes' = [passes EXCEPT ![r.pass].pc = "editMonitor"]
          /\ inflight' = (inflight \ {r})
                            \cup {Request(r.pass, "editMonitor", EditMonitorId)}
          /\ UNCHANGED << exitCode, exitPath >>
     ELSE /\ exitCode' = 1 /\ exitPath' = "login"
          /\ inflight' = inflight \ {r}
          /\ UNCHANGED passes
  /\ UNCHANGED << script, creds, argv, run, firstRun, now, sock, timer, sendBuffer,
                  pushes, monitors, groups, budget, unauth, summary >>

\* EditAck with the exit code taken from the answer.
EditAckStrict(r, ok) ==
  /\ script = "edit" /\ Running /\ sock = "connected"
  /\ r \in inflight /\ r.op = "editMonitor"
  /\ ok => authed
  /\ inflight' = inflight \ {r}
  /\ passes' = [passes EXCEPT ![r.pass] =
                  [@ EXCEPT !.pc = "done",
                            !.failed = IF ok THEN 0 ELSE 1]]
  /\ sock' = "closed"
  /\ exitCode' = (IF ok THEN 0 ELSE 1) /\ exitPath' = "done"
  /\ UNCHANGED << script, creds, argv, run, firstRun, now, timer, sendBuffer, pushes,
                  monitors, groups, authed, budget, unauth, summary >>

\* editMonitor's callback: log, disconnect, exit(0) whatever the answer.
EditAck(r, ok) ==
  /\ script = "edit" /\ Running /\ sock = "connected"
  /\ r \in inflight /\ r.op = "editMonitor"
  /\ ok => authed
  /\ inflight' = inflight \ {r}
  /\ passes' = [passes EXCEPT ![r.pass] =
                  [@ EXCEPT !.pc = "done",
                            !.failed = IF ok THEN 0 ELSE 1]]
  /\ sock' = "closed"
  /\ exitCode' = 0 /\ exitPath' = "done"
  /\ UNCHANGED << script, creds, argv, run, firstRun, now, timer, sendBuffer, pushes,
                  monitors, groups, authed, budget, unauth, summary >>

EditOverallTimeout == script = "edit" /\ OverallTimeout(FALSE)

\* ------------------------------------------------------------ specification
\* What the process and the link look like before the script starts.
Fresh ==
  /\ run = 1 /\ firstRun = << >>
  /\ exitCode = -1 /\ exitPath = "none"
  /\ sock = "none" /\ timer = FALSE /\ now = 0
  /\ passes = << >> /\ inflight = {} /\ sendBuffer = << >> /\ pushes = 0
  /\ authed = FALSE /\ budget = MaxFaults /\ unauth = {} /\ summary = << >>

\* Sequences over S of length at most n.
SeqUpTo(S, n) == UNION {[1..k -> S] : k \in 0..n}

AddInputs ==
  /\ script = "add" /\ argv = << >> /\ groups = << >>
  /\ monitors \in {S \in SUBSET Range(CATALOG) : Cardinality(S) <= MaxPreexisting}

ArgPool == { << "1" >>, << "1", "2" >>, << "2", "x" >>, << "x" >> }
DeleteInputs ==
  /\ script = "delete" /\ groups = << >>
  /\ argv \in SeqUpTo(ArgPool, MaxIds)
  /\ monitors \in SUBSET {NameOfId(1), NameOfId(12)}

ListInputs ==
  /\ script = "list" /\ argv = << >> /\ groups = << >>
  /\ monitors \in {{}, Range(CATALOG)}

\* The published groups a rebuild may find: foreign ones and ones carrying a
\* catalog name, with any weight.
ForeignNames == {"External", "Partners"}
GroupPool ==
  {[name |-> n, weight |-> w, monitorList |-> << [id |-> IdOf("external-probe")] >>]
     : n \in ForeignNames \cup ourGroupNames, w \in {1, MaxForeignWeight}}
GroupMembers == UNION {Range(GroupCatalog[k].monitors) : k \in DOMAIN GroupCatalog}

GroupInputs ==
  /\ script = "group" /\ argv = << >>
  /\ groups \in SeqUpTo(GroupPool, 1)
  /\ monitors \in {{}, GroupMembers}

EditInputs ==
  /\ script = "edit" /\ argv = << >> /\ groups = << >>
  /\ monitors \in {{"api-pricing"}}

Init ==
  /\ creds \in BOOLEAN
  /\ AddInputs \/ DeleteInputs \/ ListInputs \/ GroupInputs \/ EditInputs
  /\ Fresh

AddLoginAcked ==
  \E r \in inflight : \E response \in serviceLoginAnswers : AddLoginAck(r, response)
AddAcked ==
  \E r \in inflight : r.op = "add" /\
     \E a \in serviceAddAnswers(CATALOG[r.arg]) : AddAck(r, a)
AddTimedOut == \E p \in 1..Len(passes) : AddTimeout(p)

AddNext ==
  \/ AddStart
  \/ AddOnConnect
  \/ AddLoginAcked
  \/ AddAcked
  \/ AddTimedOut
  \/ AddOverallTimeout
  \/ AddConnectError

DeleteLoginAcked ==
  \E r \in inflight : \E response \in serviceLoginAnswers : DeleteLoginAck(r, response)
DeleteAcked ==
  \E r \in inflight : r.op = "deleteMonitor" /\
     \E a \in serviceDeleteAnswers(monitorIdsToDelete[r.arg]) : DeleteAck(r, a)
DeleteTimedOut == \E p \in 1..Len(passes) : DeleteTimeout(p)

DeleteNext ==
  \/ DeleteStart
  \/ DeleteOnConnect
  \/ DeleteLoginAcked
  \/ DeleteAcked
  \/ DeleteTimedOut
  \/ DeleteOverallTimeout
  \/ DeleteConnectError

ListLoginAcked ==
  \E r \in inflight : \E response \in serviceLoginAnswers : ListLoginAck(r, response)

ListNext ==
  \/ ListStart
  \/ ListOnConnect
  \/ ListLoginAcked
  \/ ListOnMonitorList
  \/ ListOverallTimeout
  \/ ListConnectError

GroupLoginAcked ==
  \E r \in inflight : \E response \in serviceLoginAnswers : GroupLoginAck(r, response)
GroupWaited == \E p \in 1..Len(passes) : GroupSettled(p)
GroupListServed == \E r \in inflight : GroupListRequested(r)
GroupStatusPageAcked ==
  \E r \in inflight : \E res \in serviceStatusPageAnswers : GroupStatusPageAck(r, res)
GroupSaveAcked ==
  \E r \in inflight : r.op = "saveStatusPage" /\
     \E res \in serviceSaveAnswers(passes[r.pass].newGroups) : GroupSaveAck(r, res)

GroupNext ==
  \/ GroupStart
  \/ GroupOnConnect
  \/ GroupLoginAcked
  \/ GroupWaited
  \/ GroupListServed
  \/ GroupOnMonitorList
  \/ GroupStatusPageAcked
  \/ GroupSaveAcked
  \/ GroupOverallTimeout
  \/ GroupConnectError

EditLoginAcked ==
  \E r \in inflight : \E response \in serviceLoginAnswers : EditLoginAck(r, response)
EditAcked == \E r \in inflight : \E ok \in BOOLEAN : EditAck(r, ok)

EditNext ==
  \/ EditStart
  \/ EditOnConnect
  \/ EditLoginAcked
  \/ EditAcked
  \/ EditOverallTimeout

\* Every tool, on a link that stays up once it is up.
Next ==
  \/ AddNext
  \/ DeleteNext
  \/ ListNext
  \/ GroupNext
  \/ EditNext
  \/ Tick

Spec == Init /\ [][Next]_vars

\* The operator runs the add tool again once it has exited: a new process
\* against the service as the previous one left it.
Rerun ==
  /\ script = "add" /\ exitCode # -1 /\ run < MaxRuns
  /\ run' = run + 1
  /\ firstRun' = << [monitors |-> monitors, exitCode |-> exitCode,
                     summary |-> summary] >>
  /\ exitCode' = -1 /\ exitPath' = "none"
  /\ sock' = "none" /\ timer' = FALSE /\ now' = 0
  /\ passes' = << >> /\ inflight' = {} /\ sendBuffer' = << >> /\ pushes' = 0
  /\ authed' = FALSE /\ unauth' = {} /\ summary' = << >>
  /\ UNCHANGED << script, creds, argv, monitors, groups, budget >>

InitTwice == creds \in BOOLEAN /\ AddInputs /\ Fresh
NextTwice ==
  \/ AddNext
  \/ Tick
  \/ Rerun

\* The add tool, run up to MaxRuns times in a row.
SpecTwice == InitTwice /\ [][NextTwice]_vars

InitGroup ==
  /\ creds = TRUE
  /\ script = "group" /\ argv = << >>
  /\ groups \in SeqUpTo(GroupPool, MaxExistingGroups)
  /\ monitors \in SUBSET GroupMembers
  /\ Fresh
NextGroup ==
  \/ GroupStart
  \/ GroupOnConnect
  \/ GroupLoginAcked
  \/ GroupWaited
  \/ GroupListServed
  \/ GroupOnMonitorList
  \/ GroupStatusPageAcked
  \/ GroupSaveAcked
  \/ GroupConnectError

\* The group rebuild on a prompt service, from any published group list and
\* monitor set.
SpecGroup == InitGroup /\ [][NextGroup]_vars

InitReconnect ==
  /\ creds = TRUE
  /\ \/ AddInputs /\ monitors = {}
     \/ DeleteInputs /\ Len(argv) = 1 /\ monitors = {NameOfId(1)}
     \/ ListInputs /\ monitors = {}
     \/ GroupInputs /\ groups = << >> /\ monitors = GroupMembers
     \/ EditInputs
  /\ Fresh
NextReconnect ==
  \/ Next
  \/ LinkDrop

\* Every tool, on a link that may drop and come back.
SpecReconnect == InitReconnect /\ [][NextReconnect]_vars

\* ------------------------------------------------------------- properties
Total(f) == f["ssl"] + f["dns"] + f["http"]
Count(S) == Cardinality(S)
ItemsOf(c) == {i \in 1..N : Category(i) = c}
AddPasses == IF script = "add" THEN 1..Len(passes) ELSE {}
Terminal == {"Succeeded", "Skipped", "Failed"}

\* C1 (partial-failure isolation): in the add run, the step in which item i
\* ends Failed or Skipped does not end the batch: when i is not the last item
\* the process keeps running and the request for item i+1 is emitted in that
\* very step (so requests go out in catalog order); when i is the last item the
\* run exits 0.  And the summary of a completed run counts every item that
\* succeeded or was skipped, whatever failed before it: with no failure left
\* uncounted, every catalog monitor exists on the service.
C1_FailureLeavesBatchRunning ==
  /\ [][\A p \in AddPasses :
          LET i == passes[p].idx
          IN (/\ p <= Len(passes')
              /\ passes[p].pc = "add"
              /\ passes[p].status[i] = "Creating"
              /\ passes'[p].status[i] \in {"Failed", "Skipped"})
             => IF i < N
                THEN /\ exitCode' = -1
                     /\ passes'[p].idx = i + 1
                     /\ passes'[p].status[i + 1] = "Creating"
                     /\ Request(p, "add", i + 1) \in inflight' \cup Range(sendBuffer')
                ELSE /\ exitCode' = 0
                     /\ passes'[p].pc = "done"]_vars
  /\ [](\A p \in AddPasses :
          passes[p].pc = "done" =>
            /\ \A i \in 1..N : passes[p].status[i] \in Terminal
            /\ summary =
                 << [added |-> [c \in Cats |->
                                 Count({i \in ItemsOf(c) : passes[p].status[i] = "Succeeded"})],
                     skipped |-> [c \in Cats |->
                                 Count({i \in ItemsOf(c) : passes[p].status[i] = "Skipped"})]] >>
            /\ (\A i \in 1..N : passes[p].status[i] # "Failed")
                 => Range(CATALOG) \subseteq monitors)

\* An add run that completed although an item before the last timed out, the
\* item after it having been created.
C1_Witness ==
  /\ script = "add" /\ exitCode = 0
  /\ \E p \in AddPasses : \E i \in 1..(N - 1) :
        /\ passes[p].pc = "done"
        /\ passes[p].answer[i].kind = "timeout"
        /\ passes[p].status[i] = "Failed"
        /\ passes[p].status[i + 1] = "Succeeded"

PreviousRunClean ==
  /\ firstRun[1].exitCode = 0
  /\ firstRun[1].summary # << >>
  /\ Total(firstRun[1].summary[1].added) + Total(firstRun[1].summary[1].skipped) = N

\* Every request of this run was acknowledged in time, with success or with
\* the uniqueness marker.
NoRequestFailed ==
  \A p \in AddPasses : passes[p].pc = "done" =>
     \A i \in 1..N : /\ passes[p].answer[i].kind = "ack"
                     /\ passes[p].answer[i].ok \/ passes[p].answer[i].marked

C3_Classification ==
  \A p \in AddPasses :
     /\ \A i \in 1..N :
          LET a == passes[p].answer[i]
              st == passes[p].status[i]
          IN /\ (st = "Succeeded") <=> (a.kind = "ack" /\ a.ok)
             /\ (st = "Skipped") <=> (a.kind = "ack" /\ ~a.ok /\ a.marked)
             /\ (st = "Failed") <=>
                   (a.kind = "timeout" \/ (a.kind = "ack" /\ ~a.ok /\ ~a.marked))
     /\ \A c \in Cats :
          /\ passes[p].added[c] =
               Count({i \in ItemsOf(c) : passes[p].status[i] = "Succeeded"})
          /\ passes[p].skipped[c] =
               Count({i \in ItemsOf(c) : passes[p].status[i] = "Skipped"})

\* A pass that has seen all three outcomes, the failure being an error answer.
C3_Witness ==
  \E p \in AddPasses : \E i, j, k \in 1..N :
     /\ passes[p].status[i] = "Succeeded"
     /\ passes[p].status[j] = "Skipped"
     /\ passes[p].status[k] = "Failed" /\ passes[p].answer[k].kind = "ack"

\* The passes of the group rebuild that have built the list for saveStatusPage.
SavedPasses ==
  IF script = "group"
  THEN {p \in 1..Len(passes) : passes[p].pc \in {"saveStatusPage", "done"}}
  ELSE {}
CatalogGroups == 1..Min(NumGroups, Len(STATUS_PAGE_GROUPS))
CatalogGroupNames == {STATUS_PAGE_GROUPS[k].name : k \in CatalogGroups}
CatalogMembers(k) == Prefix(STATUS_PAGE_GROUPS[k].monitors, MaxMembers)
IsForeign(g) == g.name \notin CatalogGroupNames
ForeignAt(list) == {j \in 1..Len(list) : IsForeign(list[j])}
NthForeign(list, n) ==
  CHOOSE j \in ForeignAt(list) : Count({l \in ForeignAt(list) : l <= j}) = n
CatalogIndex(name) == CHOOSE k \in CatalogGroups : STATUS_PAGE_GROUPS[k].name = name

\* C4 (group preservation): the list passed to saveStatusPage starts with the
\* foreign groups of the existing list, each unchanged and in their original
\* order, and everything after them is a group built in this run: it carries a
\* catalog name, the built groups follow catalog order without repetition, and
\* their members are ids of that catalog group's monitors (so no old group
\* with a catalog name is carried over).
C4_GroupPreservation ==
  \A p \in SavedPasses :
     LET ex == passes[p].existingGroups
         ng == passes[p].newGroups
         f == Count(ForeignAt(ex))
     IN /\ Len(ng) >= f
        /\ \A j \in 1..f : ng[j] = ex[NthForeign(ex, j)]
        /\ \A j \in (f + 1)..Len(ng) :
             /\ ~IsForeign(ng[j])
             /\ \A m \in Range(ng[j].monitorList) :
                  m.id \in {IdOf(n) : n \in Range(CatalogMembers(CatalogIndex(ng[j].name)))}
        /\ \A j, l \in (f + 1)..Len(ng) :
             j < l => CatalogIndex(ng[j].name) < CatalogIndex(ng[l].name)

\* A rebuild whose existing list held a foreign group and a group with a
\* catalog name, and that built a group.
C4_Witness ==
  \E p \in SavedPasses :
     LET ex == passes[p].existingGroups
     IN /\ \E j, l \in 1..Len(ex) : IsForeign(ex[j]) /\ ~IsForeign(ex[l])
        /\ Len(passes[p].newGroups) > Count(ForeignAt(ex))

\* C5 as stated (owned-group weight bound): in the list passed to
\* saveStatusPage every group with a catalog name has a weight greater than
\* the weight of every preserved foreign group.
C5_OwnedAboveForeign ==
  \A p \in SavedPasses :
     LET ng == passes[p].newGroups
     IN \A j, l \in 1..Len(ng) :
          (~IsForeign(ng[j]) /\ IsForeign(ng[l])) => ng[j].weight > ng[l].weight

\* The members of catalog group k that the service knows, in catalog order.
Resolved(k) == SelectSeq(CatalogMembers(k), LAMBDA n : n \in monitors)

\* C6 (empty-group omission): in the list passed to saveStatusPage, a catalog
\* group none of whose members is a monitor of the service has no entry; any
\* other catalog group has exactly one entry, whose members are the ids of the
\* members the service knows, in catalog order, the others dropped; so no
\* group built by the run is empty.
C6_EmptyGroupOmitted ==
  \A p \in SavedPasses :
     LET ng == passes[p].newGroups
         f == Count(ForeignAt(passes[p].existingGroups))
         built == {j \in (f + 1)..Len(ng) : TRUE}
     IN /\ \A j \in built : Len(ng[j].monitorList) > 0
        /\ \A k \in CatalogGroups :
             LET at == {j \in built : ng[j].name = STATUS_PAGE_GROUPS[k].name}
             IN IF Len(Resolved(k)) = 0
                THEN at = {}
                ELSE /\ Count(at) = 1
                     /\ \A j \in at :
                          ng[j].monitorList =
                            [i \in 1..Len(Resolved(k)) |-> [id |-> IdOf(Resolved(k)[i])]]

\* A rebuild with one catalog group fully unknown to the service and another
\* known in part.
C6_Witness ==
  \E p \in SavedPasses : \E k, l \in CatalogGroups :
     /\ Len(Resolved(k)) = 0
     /\ Len(Resolved(l)) > 0 /\ Len(Resolved(l)) < Len(CatalogMembers(l))

\* C7 as stated (authentication precedes every other operation): no request
\* other than login reaches the service on a link on which login has not
\* succeeded.
C7_LoginBeforeEveryRequest == unauth = {}

\* C8 as stated (session close on every exit path): a process that exits
\* after it opened the session has called socket.disconnect.
C8_SessionClosedOnExit == (exitCode # -1 /\ sock # "none") => sock = "closed"

FatalPaths == {"credentials", "login", "login-timeout", "connect_error", "deadline"}
Completed == \E p \in 1..Len(passes) : passes[p].pc = "done"

\* The exit codes of the add, delete and edit tools, the places in FatalAt
\* being the fatal ones: a run that completed its batch after login exits 0,
\* only such a run exits 0, exit code 1 is given at the fatal places and only
\* there, and a run without credentials never exits 0.
ExitCodePolicy(FatalAt) ==
  (script \in {"add", "delete", "edit"} /\ exitCode # -1)
    => /\ Completed => exitCode = 0
       /\ exitCode = 0 => (Completed /\ exitPath = "done")
       /\ exitCode = 1 <=> exitPath \in FatalAt
       /\ ~creds => exitCode = 1

\* C9 as stated (exit-code policy): exit code 1 exactly on missing
\* credentials, a rejected or timed-out login, a connection error or the
\* overall deadline; exit code 0 whenever the batch ran to completion.
C9_ExitCodePolicy == ExitCodePolicy(FatalPaths)

\* C9 (amended): as stated, with one more place that exits 1: the delete
\* tool's usage error when it is given no id.
C9_ExitCodePolicyWithUsage == ExitCodePolicy(FatalPaths \cup {"usage"})

\* An edit run that exits 0 although the service refused the edit.
C9_Witness ==
  /\ script = "edit" /\ exitCode = 0
  /\ \E p \in 1..Len(passes) : passes[p].pc = "done" /\ passes[p].failed = 1

\* C10 as stated (missing credentials are fatal before any network activity):
\* without credentials no tool opens a connection or sends a request.
C10_NoNetworkWithoutCredentials ==
  ~creds => (sock = "none" /\ passes = << >> /\ inflight = {})

\* What the printed summary reports as failed for category c: the count it
\* carries, if it carries one.
SummaryFailed(s, c) == IF "failed" \in DOMAIN s THEN s.failed[c] ELSE 0

\* C11 as stated (summary completeness): when an add run completes, the
\* summary accounts, per category, for every catalog item: created + skipped +
\* failed is the number of items of the category, and every Failed item is in
\* the summary's failure list.
C11_SummaryComplete ==
  (script = "add" /\ exitPath = "done") =>
     \A p \in AddPasses : passes[p].pc = "done" =>
        /\ \A c \in Cats :
             summary[1].added[c] + summary[1].skipped[c] + SummaryFailed(summary[1], c)
               = Count(ItemsOf(c))
        /\ \A i \in 1..N :
             passes[p].status[i] = "Failed" =>
               /\ "failures" \in DOMAIN summary[1]
               /\ CATALOG[i] \in {f.itemName : f \in Range(summary[1].failures)}

\* The create and delete requests sent and not yet answered.
Outstanding == {r \in inflight \cup Range(sendBuffer) : r.op \in {"add", "deleteMonitor"}}

\* C12 as stated (sequential processing): at most one create or delete
\* request is outstanding at any time, also after a per-request timeout.
C12_OneOutstanding == Count(Outstanding) <= 1

\* The add run against a service that may stay silent for the whole of the
\* overall timer: the link and the answers may take as many ticks as the
\* timer allows.
InitSilent ==
  /\ script = "add" /\ creds = TRUE /\ argv = << >>
  /\ monitors = {} /\ groups = << >>
  /\ run = 1 /\ firstRun = << >>
  /\ exitCode = -1 /\ exitPath = "none"
  /\ sock = "none" /\ timer = FALSE /\ now = 0
  /\ passes = << >> /\ inflight = {} /\ sendBuffer = << >> /\ pushes = 0
  /\ authed = FALSE /\ budget = OverallTimeoutMs \div TickMs
  /\ unauth = {} /\ summary = << >>

NextSilent == AddNext \/ Tick

SpecSilent == InitSilent /\ [][NextSilent]_vars

\* All the time that has passed in pass p went into per-request timeouts.
OnlyTimeoutsTookTime(p) ==
  now = RequestTimeout * Count({i \in 1..N : passes[p].answer[i].kind = "timeout"})

\* C13 as stated (timeout boundary): per-request timeouts alone never make
\* the overall deadline fire: a logged-in add run whose elapsed time is made
\* of timed-out requests only is not ended by the overall timer.
C13_TimeoutsNeverExpireRun ==
  \A p \in AddPasses :
     (passes[p].pc = "add" /\ OnlyTimeoutsTookTime(p)) => exitPath # "deadline"

\* C14 as stated (bounded run), the part a finite run can refute: when the
\* run-scoped deadline expires before the run completes, the session is
\* closed and the exit code is non-zero.
C14_DeadlineClosesSession ==
  exitPath = "deadline" => (exitCode # 0 /\ exitCode # -1 /\ sock = "closed")

\* The saveStatusPage requests sent and not yet answered.
SaveRequests == {r \in inflight \cup Range(sendBuffer) : r.op = "saveStatusPage"}

\* C15 (missing base configuration is fatal): a group rebuild that got
\* ok = false from getStatusPage has exited with code 1 and has sent no
\* saveStatusPage request; every saveStatusPage request that is sent rests on
\* a getStatusPage answered with the published list; and the published list
\* changes only in the step that answers a saveStatusPage request, so a run
\* without base configuration leaves it as it was.
C15_NoSaveWithoutBase ==
  /\ [](exitPath = "get-failed" =>
          /\ exitCode = 1
          /\ SaveRequests = {}
          /\ \A p \in 1..Len(passes) : passes[p].pc \notin {"saveStatusPage", "done"})
  /\ [](script = "group" =>
          \A p \in 1..Len(passes) :
             passes[p].pc = "saveStatusPage" =>
               /\ passes[p].existingGroups = groups
               /\ Request(p, "saveStatusPage", 0) \in SaveRequests)
  /\ [][groups' # groups => \E r \in inflight \ inflight' : r.op = "saveStatusPage"]_vars

\* A rebuild that ended on a refused getStatusPage, with groups published and
\* monitors to publish.
C15_Witness ==
  /\ script = "group" /\ exitPath = "get-failed"
  /\ groups # << >> /\ monitors # {}
  /\ \E p \in 1..Len(passes) : passes[p].pc = "getStatusPage"

\* The create requests sent and not yet answered.  The service creates a
\* monitor when it answers, and the add run removes none, so the name of such
\* a request is a monitor of the service only if it was one before the
\* request was sent.
CreateRequests == {r \in inflight \cup Range(sendBuffer) : r.op = "add"}

\* C16 as stated (create only what is missing): the add run issues no create
\* request for a desired monitor that already exists on the service.
C16_NoCreateForExisting ==
  script = "add" => \A r \in CreateRequests : CATALOG[r.arg] \notin monitors

GroupPasses == IF script = "group" THEN 1..Len(passes) ELSE {}

\* C17 (push correlation): in the group rebuild, a monitorList push received
\* while a pass waits for it (its handler registered and getMonitorList
\* emitted) is the one the pass takes: in that step the pass builds its map
\* from the pushed snapshot and goes on to getStatusPage; at most one handler
\* fires for a push; and a push received when the pass does not wait (before
\* the request, or after the snapshot was taken) changes nothing of the pass,
\* so the snapshot is taken once.
C17_PushTakenOnce ==
  [][\A p \in GroupPasses :
        p <= Len(passes') =>
          /\ (passes[p].pc = "monitorList" /\ pushes' < pushes)
               => /\ passes'[p].pc = "getStatusPage"
                  /\ passes'[p].monitorMap = monitorMapOf(monitors)
          /\ (passes[p].pc # "monitorList" /\ pushes' < pushes)
               => passes'[p] = passes[p]
          /\ passes'[p].pc = "monitorList" => passes[p].pc \in {"settle", "monitorList"}
          /\ passes[p].pc \in {"getStatusPage", "saveStatusPage", "done"}
               => passes'[p].monitorMap = passes[p].monitorMap
          /\ Count({q \in GroupPasses : /\ q <= Len(passes')
                                        /\ passes[q].pc = "monitorList"
                                        /\ passes'[q].pc # "monitorList"}) <= 1]_vars

\* The snapshot has been taken and another push is on its way.
C17_Witness ==
  /\ pushes > 0
  /\ \E p \in GroupPasses :
        /\ passes[p].pc = "saveStatusPage"
        /\ DOMAIN passes[p].monitorMap # {}

\* C18 (owned-group weights): in the list passed to saveStatusPage the k-th
\* group built by the run has weight len(foreign) + k, the built groups are
\* in catalog order, and a catalog group left out for having no resolved
\* member uses up no weight, so the built weights are consecutive.
C18_OwnedWeightsConsecutive ==
  \A p \in SavedPasses :
     LET ng == passes[p].newGroups
         f == Count(ForeignAt(passes[p].existingGroups))
     IN /\ \A k \in 1..(Len(ng) - f) : ng[f + k].weight = f + k
        /\ \A j, l \in (f + 1)..Len(ng) :
             j < l => CatalogIndex(ng[j].name) < CatalogIndex(ng[l].name)
        /\ Len(ng) - f = Count({k \in CatalogGroups : Len(Resolved(k)) > 0})

\* A rebuild that kept a foreign group, left out the first catalog group and
\* built a later one.
C18_Witness ==
  \E p \in SavedPasses :
     /\ ForeignAt(passes[p].existingGroups) # {}
     /\ Len(Resolved(1)) = 0
     /\ \E k \in CatalogGroups : Len(Resolved(k)) > 0
     /\ Len(passes[p].newGroups) > Count(ForeignAt(passes[p].existingGroups))

DeletePasses == IF script = "delete" THEN 1..Len(passes) ELSE {}
NumIds == Len(monitorIdsToDelete)

\* C19 (delete run accounting): a deleteMonitor request is emitted only in
\* the step that takes its id from Pending to Deleting, so each id gets one
\* request; an id is Succeeded and counted as deleted exactly on an
\* acknowledgement with ok = true, Failed and counted as failed exactly on any
\* other acknowledgement and on a timeout; the step that fails an id emits
\* the request of the next id, or ends the run with exit code 0 after the
\* last; and the printed summary has deleted + failed equal to the number of
\* ids supplied.
C19_DeleteAccounting ==
  /\ [][\A r \in (inflight' \cup Range(sendBuffer')) \ (inflight \cup Range(sendBuffer)) :
          r.op = "deleteMonitor" =>
             /\ passes[r.pass].status[r.arg] = "Pending"
             /\ passes'[r.pass].status[r.arg] = "Deleting"]_vars
  /\ [][\A p \in DeletePasses :
          LET i == passes[p].idx
          IN (/\ passes[p].pc = "delete"
              /\ passes[p].status[i] = "Deleting"
              /\ passes'[p].status[i] = "Failed")
             => IF i < NumIds
                THEN /\ exitCode' = -1
                     /\ passes'[p].status[i + 1] = "Deleting"
                     /\ Request(p, "deleteMonitor", i + 1) \in inflight'
                ELSE exitCode' = 0]_vars
  /\ [](\A p \in DeletePasses :
          /\ \A i \in 1..NumIds :
               LET a == passes[p].answer[i]
                   st == passes[p].status[i]
               IN /\ st \in {"Pending", "Deleting", "Succeeded", "Failed"}
                  /\ (st = "Succeeded") <=> (a.kind = "ack" /\ a.ok)
                  /\ (st = "Failed") <=> (a.kind = "timeout" \/ (a.kind = "ack" /\ ~a.ok))
          /\ passes[p].deleted = Count({i \in 1..NumIds : passes[p].status[i] = "Succeeded"})
          /\ passes[p].failed = Count({i \in 1..NumIds : passes[p].status[i] = "Failed"})
          /\ passes[p].pc = "done" =>
               /\ summary = << [deleted |-> passes[p].deleted, failed |-> passes[p].failed] >>
               /\ summary[1].deleted + summary[1].failed = NumIds)

\* A delete run of two ids that deleted one after the other had failed.
C19_Witness ==
  /\ script = "delete" /\ exitCode = 0 /\ NumIds = 2
  /\ summary = << [deleted |-> 1, failed |-> 1] >>
  /\ \E p \in DeletePasses : passes[p].status = << "Failed", "Succeeded" >>

ItemPasses == IF script \in {"add", "delete"} THEN 1..Len(passes) ELSE {}
Counted(rec) == Total(rec.added) + Total(rec.skipped) + rec.deleted + rec.failed
Counters(rec) == << rec.added, rec.skipped, rec.deleted, rec.failed >>

\* C20 (terminal item states are final): in every step of an add or delete
\* run each item keeps its state or moves Pending -> Creating/Deleting or
\* Creating/Deleting -> one of Succeeded, Skipped, Failed; the counters change
\* only in a step that settles an item, and then by one at most; and the
\* acknowledgement of a request whose item is already settled (it arrives
\* after the item's timeout fired) changes nothing of the pass.
C20_TerminalStatesFinal ==
  [][\A p \in ItemPasses :
        p <= Len(passes') =>
          LET rec == passes[p]
              nxt == passes'[p]
              settled == {i \in DOMAIN rec.status :
                            rec.status[i] \notin Terminal /\ nxt.status[i] \in Terminal}
          IN /\ \A i \in DOMAIN rec.status :
                  \/ nxt.status[i] = rec.status[i]
                  \/ rec.status[i] = "Pending" /\ nxt.status[i] \in {"Creating", "Deleting"}
                  \/ rec.status[i] \in {"Creating", "Deleting"} /\ nxt.status[i] \in Terminal
             /\ Count(settled) <= 1
             /\ settled = {} => Counters(nxt) = Counters(rec)
             /\ Counted(nxt) - Counted(rec) \in {0, 1}
             /\ \A r \in inflight \ inflight' :
                  (r.pass = p /\ r.op \in {"add", "deleteMonitor"}
                     /\ rec.status[r.arg] \in Terminal)
                    => nxt = rec]_vars

\* The acknowledgement of a timed-out create request has arrived (the request
\* is no longer on its way) and the item is still Failed.
C20_Witness ==
  /\ script = "add" /\ sock = "connected"
  /\ \E p \in ItemPasses : \E i \in 1..N :
        /\ passes[p].answer[i].kind = "timeout"
        /\ passes[p].status[i] = "Failed"
        /\ Request(p, "add", i) \notin inflight
        /\ CATALOG[i] \in monitors

\* C21 as stated (single pass per process): the body started by the connect
\* event runs at most once per process, also when the link drops and the
\* socket reconnects, so saveStatusPage is sent at most once per run.
C21_SinglePass ==
  /\ Len(passes) <= 1
  /\ Count({p \in 1..Len(passes) : passes[p].pc \in {"saveStatusPage", "done"}}) <= 1

\* The operator runs the group rebuild again once it has exited: a new
\* process against the service as the previous one left it.
GroupRerun ==
  /\ script = "group" /\ exitCode # -1 /\ run < MaxRuns
  /\ run' = run + 1
  /\ firstRun' = << [groups |-> groups, monitors |-> monitors, exitCode |-> exitCode] >>
  /\ exitCode' = -1 /\ exitPath' = "none"
  /\ sock' = "none" /\ timer' = FALSE /\ now' = 0
  /\ passes' = << >> /\ inflight' = {} /\ sendBuffer' = << >> /\ pushes' = 0
  /\ authed' = FALSE /\ unauth' = {} /\ summary' = << >>
  /\ UNCHANGED << script, creds, argv, monitors, groups, budget >>

NextGroupTwice == NextGroup \/ GroupRerun

\* The group rebuild, run up to MaxRuns times in a row.
SpecGroupTwice == InitGroup /\ [][NextGroupTwice]_vars

\* C22 (group rebuild is idempotent): when the group rebuild runs again after
\* a run that wrote its list, the monitor set being the same, the list it
\* passes to saveStatusPage is the list the previous run wrote (same groups,
\* order, weights and members), and so is the list published once it is done.
C22_RebuildIdempotent ==
  (script = "group" /\ run >= 2 /\ firstRun[1].exitCode = 0
     /\ monitors = firstRun[1].monitors)
    => /\ \A p \in SavedPasses : passes[p].newGroups = firstRun[1].groups
       /\ exitPath = "done" => groups = firstRun[1].groups

\* A second rebuild that wrote a list with a foreign group and a built one.
C22_Witness ==
  /\ script = "group" /\ run >= 2 /\ firstRun[1].exitCode = 0 /\ exitPath = "done"
  /\ \E j, l \in 1..Len(groups) : IsForeign(groups[j]) /\ ~IsForeign(groups[l])
  /\ \E p \in SavedPasses : passes[p].existingGroups = firstRun[1].groups

====
